---- MODULE Spec2Model ----
(***************************************************************************)
(* Circuit breaker of resilient-service-system: the singleton DynamoDB     *)
(* item SYSTEM_STATE and the three mutator transitions of                  *)
(* functions/mutator.js (FAILURE, SUCCESS, RESET), run by NProcs           *)
(* concurrent Lambda invocations that share nothing but the item.          *)
(*                                                                         *)
(* Every docClient.send is one atomic step on the item (DynamoDB's         *)
(* single-item atomicity); reads are taken as consistent.  An `await`      *)
(* between two sends is a point where other invocations may run.           *)
(* lastUpdated is left out: it is written on every update and never read   *)
(* by any decision.                                                        *)
(*                                                                         *)
(* Further parts: the reader functions/get-state.js, the dispatch of        *)
(* exports.handler on event.action, store accesses that fail (ApiSpec),    *)
(* and the workflow of one request around functions/services.js            *)
(* (FlowSpec).                                                             *)
(***************************************************************************)
EXTENDS Integers, Sequences, FiniteSets, TLC

\* ---- bounds of the model ----
NProcs == 2
MaxErrors == 11
MaxRun == 20

\* ---- program constants (mutator.js THRESHOLDS) ----
DEGRADE_TO_L2 == 5
DEGRADE_TO_L3 == 10
RECOVERY_POINTS == 10

Procs == 1..NProcs

\* value of the attribute currentLevel when the item has no such attribute
NoLevel == 0

VARIABLES
    store,          \* the item SYSTEM_STATE of the table
    pc,             \* per invocation: where it is in its handler
    loc,            \* per invocation: the handler's local variables
    ret,            \* value returned by the step just taken (NoResult if it did not return)
    onlyFailures,   \* history: every call so far was a FAILURE
    nFailures,      \* history: number of FAILURE calls while onlyFailures
    serial,         \* history: no two calls have overlapped so far
    run,            \* history (serial only): consecutive genuine successes, and the state they started from
    tierRun,        \* history (serial only): consecutive genuine successes at the current tier
    sinceFailure,   \* history: genuine handleSuccess reads since the latest FAILURE counter write
    overlap,        \* history: a handleSuccess that started alone, and what ran since its read
    inv,            \* the invocation the step just taken belongs to, and whether its store access went through
    flow,           \* the workflow execution of the current request
    k6,             \* the load script scripts/k6-test.js: its iteration counter, and history of its run
    sinceReset,     \* history: the invocations in flight at the latest RESET, and whether any later one has written
    api             \* api-handler.js: the request it is serving, and its answer

vars == <<store, pc, loc, ret, onlyFailures, nFailures, serial, run, tierRun,
          sinceFailure, overlap, inv, flow, k6, sinceReset, api>>

\* the table has no item under PK
NoItem == [present |-> FALSE, errorCount |-> 0, currentLevel |-> NoLevel, recoveryPoints |-> 0]

NoLocals == [errorCount |-> 0, currentLevel |-> NoLevel, recoveryPoints |-> 0,
             present |-> FALSE, hadErrorFlag |-> FALSE, newLevel |-> NoLevel]

NoResult == [action |-> "NONE", errorCount |-> 0, currentLevel |-> NoLevel,
             recoveryPoints |-> 0, levelChanged |-> FALSE]

\* nothing has been invoked yet
NoInvocation == [fn |-> "none", action |-> "NONE", sendOk |-> TRUE]

\* api-handler.js has not been invoked yet
NoRequest == [stage |-> "idle", body |-> "none", outcome |-> "none",
              outputKind |-> "undefined", output |-> 0,
              statusCode |-> 0, raised |-> FALSE]

\* no request has been received yet
NoFlow == [stage |-> "idle", error |-> "undefined", level |-> NoLevel, errorCount |-> 0,
           handler |-> "none", register |-> "NONE", hadErrorFlag |-> "undefined",
           calls |-> 0, status |-> 0, msg |-> "", statusCode |-> 0]

Max(a, b) == IF a >= b THEN a ELSE b
Min(a, b) == IF a <= b THEN a ELSE b

\* `x.currentLevel || 1`
LevelOr1(level) == IF level = NoLevel THEN 1 ELSE level

\* the tier the record stands for (absence is the default tier 1)
Tier(item) == LevelOr1(item.currentLevel)

\* variant of DegradeLevel: thresholds compared with > instead of >=
DegradeLevel_strict(newErrorCount, currentLevel) ==
    IF newErrorCount > DEGRADE_TO_L3 /\ currentLevel < 3 THEN 3
    ELSE IF newErrorCount > DEGRADE_TO_L2 /\ currentLevel < 2 THEN 2
    ELSE currentLevel

\* variant of DegradeLevel: the L1 -> L2 branch is missing
DegradeLevel_noL2(newErrorCount, currentLevel) ==
    IF newErrorCount >= DEGRADE_TO_L3 /\ currentLevel < 3 THEN 3
    ELSE currentLevel

\* mutator.js 76-81: degradation decision of handleFailure
DegradeLevel(newErrorCount, currentLevel) ==
    IF newErrorCount >= DEGRADE_TO_L3 /\ currentLevel < 3 THEN 3
    ELSE IF newErrorCount >= DEGRADE_TO_L2 /\ currentLevel < 2 THEN 2
    ELSE currentLevel

\* variant of CounterUpdate: the counter write leaves recoveryPoints alone
CounterUpdate_keepPoints(item) ==
    [present |-> TRUE,
     errorCount |-> item.errorCount + 1,
     currentLevel |-> item.currentLevel,
     recoveryPoints |-> item.recoveryPoints]

\* variant of CounterUpdate: the write stores a value computed from an earlier
\* read (zero plus one) instead of incrementing in place
CounterUpdate_overwrite(item) ==
    [present |-> TRUE,
     errorCount |-> IF item.present /\ item.errorCount >= 2 THEN item.errorCount ELSE item.errorCount + 1,
     currentLevel |-> item.currentLevel,
     recoveryPoints |-> 0]

\* mutator.js 57-68: SET errorCount = if_not_exists(errorCount, 0) + 1, recoveryPoints = 0
CounterUpdate(item) ==
    [present |-> TRUE,
     errorCount |-> item.errorCount + 1,
     currentLevel |-> item.currentLevel,
     recoveryPoints |-> 0]

\* variant of LevelUpdate: the level write stores nothing
LevelUpdate_lost(item, level) == item

\* mutator.js 85-94: SET currentLevel = :level
LevelUpdate(item, level) ==
    [present |-> TRUE,
     errorCount |-> item.errorCount,
     currentLevel |-> level,
     recoveryPoints |-> item.recoveryPoints]

\* variant of InitialItem: the first contact is counted as a recovery point
InitialItem_counted == [present |-> TRUE, errorCount |-> 0, currentLevel |-> 1, recoveryPoints |-> 1]

\* mutator.js 143-153 and 245-255: SET errorCount = 0, currentLevel = 1, recoveryPoints = 0
InitialItem == [present |-> TRUE, errorCount |-> 0, currentLevel |-> 1, recoveryPoints |-> 0]

\* variant of SuccessCompute: a promotion does not clear errorCount
SuccessCompute_keepErrors(item, hadErrorFlag) ==
    LET currentErrorCount == item.errorCount
        currentLevel == LevelOr1(item.currentLevel)
        currentRecoveryPoints == item.recoveryPoints
    IN  IF currentLevel = 1
        THEN [errorCount |-> Max(0, currentErrorCount - 1),
              currentLevel |-> currentLevel,
              recoveryPoints |-> 0]
        ELSE IF hadErrorFlag
        THEN [errorCount |-> currentErrorCount + 1,
              currentLevel |-> IF currentErrorCount + 1 >= DEGRADE_TO_L3 /\ currentLevel < 3
                               THEN 3 ELSE currentLevel,
              recoveryPoints |-> 0]
        ELSE IF currentRecoveryPoints + 1 >= RECOVERY_POINTS
        THEN [errorCount |-> currentErrorCount,
              currentLevel |-> IF currentLevel = 3 THEN 2
                               ELSE IF currentLevel = 2 THEN 1 ELSE currentLevel,
              recoveryPoints |-> 0]
        ELSE [errorCount |-> currentErrorCount,
              currentLevel |-> currentLevel,
              recoveryPoints |-> currentRecoveryPoints + 1]

\* variant of SuccessCompute: a protected success degrades without looking at the threshold
SuccessCompute_alwaysDegrade(item, hadErrorFlag) ==
    LET currentErrorCount == item.errorCount
        currentLevel == LevelOr1(item.currentLevel)
        currentRecoveryPoints == item.recoveryPoints
    IN  IF currentLevel = 1
        THEN [errorCount |-> Max(0, currentErrorCount - 1),
              currentLevel |-> currentLevel,
              recoveryPoints |-> 0]
        ELSE IF hadErrorFlag
        THEN [errorCount |-> currentErrorCount + 1,
              currentLevel |-> 3,
              recoveryPoints |-> 0]
        ELSE IF currentRecoveryPoints + 1 >= RECOVERY_POINTS
        THEN [errorCount |-> 0,
              currentLevel |-> IF currentLevel = 3 THEN 2
                               ELSE IF currentLevel = 2 THEN 1 ELSE currentLevel,
              recoveryPoints |-> 0]
        ELSE [errorCount |-> currentErrorCount,
              currentLevel |-> currentLevel,
              recoveryPoints |-> currentRecoveryPoints + 1]

\* variant of SuccessCompute: a promotion does not clear recoveryPoints
SuccessCompute_keepPoints(item, hadErrorFlag) ==
    LET currentErrorCount == item.errorCount
        currentLevel == LevelOr1(item.currentLevel)
        currentRecoveryPoints == item.recoveryPoints
    IN  IF currentLevel = 1
        THEN [errorCount |-> Max(0, currentErrorCount - 1),
              currentLevel |-> currentLevel,
              recoveryPoints |-> 0]
        ELSE IF hadErrorFlag
        THEN [errorCount |-> currentErrorCount + 1,
              currentLevel |-> IF currentErrorCount + 1 >= DEGRADE_TO_L3 /\ currentLevel < 3
                               THEN 3 ELSE currentLevel,
              recoveryPoints |-> 0]
        ELSE IF currentRecoveryPoints + 1 >= RECOVERY_POINTS
        THEN [errorCount |-> 0,
              currentLevel |-> IF currentLevel = 3 THEN 2
                               ELSE IF currentLevel = 2 THEN 1 ELSE currentLevel,
              recoveryPoints |-> currentRecoveryPoints + 1]
        ELSE [errorCount |-> currentErrorCount,
              currentLevel |-> currentLevel,
              recoveryPoints |-> currentRecoveryPoints + 1]

\* variant of SuccessCompute: the protected branch degrades one error late
SuccessCompute_lateDegrade(item, hadErrorFlag) ==
    LET currentErrorCount == item.errorCount
        currentLevel == LevelOr1(item.currentLevel)
        currentRecoveryPoints == item.recoveryPoints
    IN  IF currentLevel = 1
        THEN [errorCount |-> Max(0, currentErrorCount - 1),
              currentLevel |-> currentLevel,
              recoveryPoints |-> 0]
        ELSE IF hadErrorFlag
        THEN [errorCount |-> currentErrorCount + 1,
              currentLevel |-> IF currentErrorCount + 1 > DEGRADE_TO_L3 /\ currentLevel < 3
                               THEN 3 ELSE currentLevel,
              recoveryPoints |-> 0]
        ELSE IF currentRecoveryPoints + 1 >= RECOVERY_POINTS
        THEN [errorCount |-> 0,
              currentLevel |-> IF currentLevel = 3 THEN 2
                               ELSE IF currentLevel = 2 THEN 1 ELSE currentLevel,
              recoveryPoints |-> 0]
        ELSE [errorCount |-> currentErrorCount,
              currentLevel |-> currentLevel,
              recoveryPoints |-> currentRecoveryPoints + 1]

\* variant of SuccessCompute: the promotion comes one recovery point late
SuccessCompute_latePromote(item, hadErrorFlag) ==
    LET currentErrorCount == item.errorCount
        currentLevel == LevelOr1(item.currentLevel)
        currentRecoveryPoints == item.recoveryPoints
    IN  IF currentLevel = 1
        THEN [errorCount |-> Max(0, currentErrorCount - 1),
              currentLevel |-> currentLevel,
              recoveryPoints |-> 0]
        ELSE IF hadErrorFlag
        THEN [errorCount |-> currentErrorCount + 1,
              currentLevel |-> IF currentErrorCount + 1 >= DEGRADE_TO_L3 /\ currentLevel < 3
                               THEN 3 ELSE currentLevel,
              recoveryPoints |-> 0]
        ELSE IF currentRecoveryPoints + 1 > RECOVERY_POINTS
        THEN [errorCount |-> 0,
              currentLevel |-> IF currentLevel = 3 THEN 2
                               ELSE IF currentLevel = 2 THEN 1 ELSE currentLevel,
              recoveryPoints |-> 0]
        ELSE [errorCount |-> currentErrorCount,
              currentLevel |-> currentLevel,
              recoveryPoints |-> currentRecoveryPoints + 1]

\* variant of SuccessCompute: the tier-1 branch is taken by genuine successes only
SuccessCompute_tier1Protected(item, hadErrorFlag) ==
    LET currentErrorCount == item.errorCount
        currentLevel == LevelOr1(item.currentLevel)
        currentRecoveryPoints == item.recoveryPoints
    IN  IF currentLevel = 1 /\ ~hadErrorFlag
        THEN [errorCount |-> Max(0, currentErrorCount - 1),
              currentLevel |-> currentLevel,
              recoveryPoints |-> 0]
        ELSE IF hadErrorFlag
        THEN [errorCount |-> currentErrorCount + 1,
              currentLevel |-> IF currentErrorCount + 1 >= DEGRADE_TO_L3 /\ currentLevel < 3
                               THEN 3 ELSE currentLevel,
              recoveryPoints |-> 0]
        ELSE IF currentRecoveryPoints + 1 >= RECOVERY_POINTS
        THEN [errorCount |-> 0,
              currentLevel |-> IF currentLevel = 3 THEN 2
                               ELSE IF currentLevel = 2 THEN 1 ELSE currentLevel,
              recoveryPoints |-> 0]
        ELSE [errorCount |-> currentErrorCount,
              currentLevel |-> currentLevel,
              recoveryPoints |-> currentRecoveryPoints + 1]

\* variant of SuccessCompute: a genuine success below the threshold lowers errorCount
SuccessCompute_forgets(item, hadErrorFlag) ==
    LET currentErrorCount == item.errorCount
        currentLevel == LevelOr1(item.currentLevel)
        currentRecoveryPoints == item.recoveryPoints
    IN  IF currentLevel = 1
        THEN [errorCount |-> Max(0, currentErrorCount - 1),
              currentLevel |-> currentLevel,
              recoveryPoints |-> 0]
        ELSE IF hadErrorFlag
        THEN [errorCount |-> currentErrorCount + 1,
              currentLevel |-> IF currentErrorCount + 1 >= DEGRADE_TO_L3 /\ currentLevel < 3
                               THEN 3 ELSE currentLevel,
              recoveryPoints |-> 0]
        ELSE IF currentRecoveryPoints + 1 >= RECOVERY_POINTS
        THEN [errorCount |-> 0,
              currentLevel |-> IF currentLevel = 3 THEN 2
                               ELSE IF currentLevel = 2 THEN 1 ELSE currentLevel,
              recoveryPoints |-> 0]
        ELSE [errorCount |-> Max(0, currentErrorCount - 1),
              currentLevel |-> currentLevel,
              recoveryPoints |-> currentRecoveryPoints + 1]

\* mutator.js 166-208: the new values handleSuccess computes from the item it read
SuccessCompute(item, hadErrorFlag) ==
    LET currentErrorCount == item.errorCount
        currentLevel == LevelOr1(item.currentLevel)
        currentRecoveryPoints == item.recoveryPoints
    IN  IF currentLevel = 1
        THEN [errorCount |-> Max(0, currentErrorCount - 1),
              currentLevel |-> currentLevel,
              recoveryPoints |-> 0]
        ELSE IF hadErrorFlag
        THEN [errorCount |-> currentErrorCount + 1,
              currentLevel |-> IF currentErrorCount + 1 >= DEGRADE_TO_L3 /\ currentLevel < 3
                               THEN 3 ELSE currentLevel,
              recoveryPoints |-> 0]
        ELSE IF currentRecoveryPoints + 1 >= RECOVERY_POINTS
        THEN [errorCount |-> 0,
              currentLevel |-> IF currentLevel = 3 THEN 2
                               ELSE IF currentLevel = 2 THEN 1 ELSE currentLevel,
              recoveryPoints |-> 0]
        ELSE [errorCount |-> currentErrorCount,
              currentLevel |-> currentLevel,
              recoveryPoints |-> currentRecoveryPoints + 1]

\* mutator.js 211-222: SET errorCount, currentLevel, recoveryPoints
SuccessItem(new) ==
    [present |-> TRUE,
     errorCount |-> new.errorCount,
     currentLevel |-> new.currentLevel,
     recoveryPoints |-> new.recoveryPoints]

OthersIdle(p) == \A q \in Procs \ {p} : pc[q] = "idle"
AllIdle == \A q \in Procs : pc[q] = "idle"

\* history bookkeeping for a call of p that is not a genuine success
RunBroken(p, item) ==
    /\ serial' = (serial /\ OthersIdle(p))
    /\ run' = IF serial' THEN [n |-> 0, level0 |-> Tier(item), rp0 |-> item.recoveryPoints]
              ELSE [n |-> 0, level0 |-> 1, rp0 |-> 0]
    /\ tierRun' = 0

Init ==
    /\ store = NoItem
    /\ pc = [p \in Procs |-> "idle"]
    /\ loc = [p \in Procs |-> NoLocals]
    /\ ret = NoResult
    /\ onlyFailures = TRUE
    /\ nFailures = 0
    /\ serial = TRUE
    /\ run = [n |-> 0, level0 |-> 1, rp0 |-> 0]
    /\ tierRun = 0
    /\ sinceFailure = [seen |-> FALSE, reads |-> 0]
    /\ inv = NoInvocation
    /\ flow = NoFlow
    /\ k6 = [currentIteration |-> 0, degraded |-> FALSE, rose |-> FALSE]
    /\ sinceReset = [stale |-> {}, intact |-> FALSE]
    /\ api = NoRequest
    /\ overlap = "off"

\* handleFailure, mutator.js 53-81 and 106-112: the counter write, the decision,
\* and the return when the level does not change
FailureUpdate(p) ==
    /\ pc[p] = "idle"
    /\ store.errorCount < MaxErrors
    /\ LET attrs == CounterUpdate(store)
           newErrorCount == attrs.errorCount
           currentLevel == LevelOr1(attrs.currentLevel)
           newLevel == DegradeLevel(newErrorCount, currentLevel)
       IN  /\ store' = attrs
           /\ IF newLevel # currentLevel
              THEN /\ pc' = [pc EXCEPT ![p] = "F_level"]
                   /\ loc' = [loc EXCEPT ![p] = [NoLocals EXCEPT !.errorCount = newErrorCount,
                                                              !.currentLevel = currentLevel,
                                                              !.newLevel = newLevel]]
                   /\ ret' = NoResult
              ELSE /\ pc' = pc
                   /\ loc' = loc
                   /\ ret' = [action |-> "FAILURE", errorCount |-> newErrorCount,
                              currentLevel |-> currentLevel, recoveryPoints |-> 0,
                              levelChanged |-> FALSE]
           /\ nFailures' = IF onlyFailures THEN nFailures + 1 ELSE 0
           /\ RunBroken(p, attrs)
           /\ overlap' = IF overlap = "S"
                         THEN (IF newLevel # currentLevel THEN "SFpending" ELSE "SF")
                         ELSE "off"
    /\ sinceFailure' = [seen |-> TRUE, reads |-> 0]
    /\ UNCHANGED onlyFailures

\* handleFailure, mutator.js 84-104: the level write and the return
FailureLevelUpdate(p) ==
    /\ pc[p] = "F_level"
    /\ store' = LevelUpdate(store, loc[p].newLevel)
    /\ pc' = [pc EXCEPT ![p] = "idle"]
    /\ loc' = [loc EXCEPT ![p] = NoLocals]
    /\ ret' = [action |-> "FAILURE", errorCount |-> loc[p].errorCount,
               currentLevel |-> loc[p].newLevel, recoveryPoints |-> 0,
               levelChanged |-> TRUE]
    /\ run' = IF serial THEN [n |-> 0, level0 |-> Tier(store'), rp0 |-> store'.recoveryPoints]
              ELSE run
    /\ overlap' = IF overlap = "SFpending" THEN "SF" ELSE "off"
    /\ UNCHANGED <<onlyFailures, nFailures, serial, tierRun, sinceFailure>>

\* handleSuccess, mutator.js 125-139: the read of the item
SuccessGet(p, hadErrorFlag) ==
    /\ pc[p] = "idle"
    /\ (hadErrorFlag /\ Tier(store) # 1) => store.errorCount < MaxErrors
    /\ pc' = [pc EXCEPT ![p] = "S_update"]
    /\ loc' = [loc EXCEPT ![p] = [errorCount |-> store.errorCount,
                                  currentLevel |-> store.currentLevel,
                                  recoveryPoints |-> store.recoveryPoints,
                                  present |-> store.present,
                                  hadErrorFlag |-> hadErrorFlag,
                                  newLevel |-> NoLevel]]
    /\ ret' = NoResult
    /\ onlyFailures' = FALSE
    /\ nFailures' = 0
    /\ serial' = (serial /\ OthersIdle(p))
    /\ IF ~serial' THEN /\ run' = [n |-> 0, level0 |-> 1, rp0 |-> 0]
                        /\ tierRun' = 0
       ELSE UNCHANGED <<run, tierRun>>
    /\ sinceFailure' = IF sinceFailure.seen /\ ~hadErrorFlag
                       THEN [sinceFailure EXCEPT !.reads = Min(RECOVERY_POINTS, @ + 1)]
                       ELSE sinceFailure
    /\ overlap' = IF AllIdle THEN "S" ELSE "off"
    /\ UNCHANGED store

\* handleSuccess, mutator.js 141-234: the write of the item and the return
SuccessUpdate(p) ==
    /\ pc[p] = "S_update"
    /\ LET new == SuccessCompute(loc[p], loc[p].hadErrorFlag)
       IN  IF ~loc[p].present
           THEN /\ store' = InitialItem
                /\ ret' = [action |-> "SUCCESS", errorCount |-> 0, currentLevel |-> 1,
                           recoveryPoints |-> 0, levelChanged |-> FALSE]
           ELSE /\ store' = SuccessItem(new)
                /\ ret' = [action |-> "SUCCESS", errorCount |-> new.errorCount,
                           currentLevel |-> new.currentLevel,
                           recoveryPoints |-> new.recoveryPoints,
                           levelChanged |-> (new.currentLevel # LevelOr1(loc[p].currentLevel))]
    /\ pc' = [pc EXCEPT ![p] = "idle"]
    /\ loc' = [loc EXCEPT ![p] = NoLocals]
    /\ IF ~serial THEN UNCHANGED <<run, tierRun>>
       ELSE IF loc[p].hadErrorFlag
       THEN /\ run' = [n |-> 0, level0 |-> Tier(store'), rp0 |-> store'.recoveryPoints]
            /\ tierRun' = 0
       ELSE /\ run' = [run EXCEPT !.n = Min(MaxRun, run.n + 1)]
            /\ tierRun' = IF Tier(store') # Tier(store) THEN 0
                          ELSE Min(RECOVERY_POINTS, tierRun + 1)
    /\ overlap' = "off"
    /\ UNCHANGED <<onlyFailures, nFailures, serial, sinceFailure>>

\* variant of ResetItem: the write forgets the error counter
ResetItem_keepErrors(item) ==
    [present |-> TRUE, errorCount |-> item.errorCount, currentLevel |-> 1, recoveryPoints |-> 0]

\* mutator.js 245-256: SET errorCount = 0, currentLevel = 1, recoveryPoints = 0,
\* on whatever item is stored, creating it when absent
ResetItem(item) ==
    [present |-> TRUE, errorCount |-> 0, currentLevel |-> 1, recoveryPoints |-> 0]

\* variant of ResetResult: levelChanged tells whether the tier was lowered
ResetResult_compares(item) ==
    [action |-> "RESET", errorCount |-> 0, currentLevel |-> 1,
     recoveryPoints |-> 0, levelChanged |-> (Tier(item) # 1)]

\* mutator.js 258-266: the object handleReset returns, whatever item was stored
ResetResult(item) ==
    [action |-> "RESET", errorCount |-> 0, currentLevel |-> 1,
     recoveryPoints |-> 0, levelChanged |-> TRUE]

\* handleReset, mutator.js 242-268
Reset(p) ==
    /\ pc[p] = "idle"
    /\ store' = ResetItem(store)
    /\ ret' = ResetResult(store)
    /\ onlyFailures' = FALSE
    /\ nFailures' = 0
    /\ RunBroken(p, InitialItem)
    /\ overlap' = "off"
    /\ UNCHANGED <<pc, loc, sinceFailure>>

\* ---- the reader, the dispatch on the action, and failing store accesses ----

\* the actions the mutator knows (mutator.js 34-39)
Actions == {"FAILURE", "SUCCESS", "RESET"}

\* other values of event.action: a string the mutator does not know, and no action at all
OtherActions == {"PING", "undefined"}

\* an Error thrown to the caller, as a result value
Thrown(what) == [action |-> what, errorCount |-> 0, currentLevel |-> NoLevel,
                 recoveryPoints |-> 0, levelChanged |-> FALSE]

\* variant of Dispatch: the final else falls back to a reset
Dispatch_defaultReset(action) ==
    IF action = "FAILURE" THEN "handleFailure"
    ELSE IF action = "SUCCESS" THEN "handleSuccess"
    ELSE "handleReset"

\* mutator.js 34-42: the branch exports.handler takes on event.action
Dispatch(action) ==
    IF action = "FAILURE" THEN "handleFailure"
    ELSE IF action = "SUCCESS" THEN "handleSuccess"
    ELSE IF action = "RESET" THEN "handleReset"
    ELSE "throw"

\* mutator.js 43-46: the catch of exports.handler logs and rethrows
HandlerCatch(error) == error

\* variant of StoreAfterGet: the read creates the item when it is absent
StoreAfterGet_create(item) ==
    IF item.present THEN item
    ELSE [present |-> TRUE, errorCount |-> 0, currentLevel |-> 1, recoveryPoints |-> 0]

\* get-state.js 9-14: the item after the GetCommand
StoreAfterGet(item) == item

\* get-state.js 17-28: the default state when there is no item, else the
\* item's attributes as they are (currentLevel undefined when the item has none)
GetStateResult(item) ==
    [action |-> "GET",
     errorCount |-> IF item.present THEN item.errorCount ELSE 0,
     currentLevel |-> IF item.present THEN item.currentLevel ELSE 1,
     recoveryPoints |-> 0, levelChanged |-> FALSE]

\* variant of GetStateCatch: a failed read is answered with the default state
GetStateCatch_default(error) ==
    [action |-> "GET", errorCount |-> 0, currentLevel |-> 1,
     recoveryPoints |-> 0, levelChanged |-> FALSE]

\* get-state.js 29-32: the catch logs and rethrows
GetStateCatch(error) == error

\* the step belongs to an invocation of fn with this action, its send went through
Invoked(fn, action) == inv' = [fn |-> fn, action |-> action, sendOk |-> TRUE]

\* get-state.js 7-28: one read, which goes through
GetState ==
    /\ AllIdle
    /\ store' = StoreAfterGet(store)
    /\ ret' = GetStateResult(store)
    /\ Invoked("get-state", "NONE")
    /\ UNCHANGED <<pc, loc, onlyFailures, nFailures, serial, run, tierRun,
                   sinceFailure, overlap>>

\* get-state.js 14 and 29-32: the read fails
GetStateSendFails ==
    /\ AllIdle
    /\ ret' = GetStateCatch(Thrown("STORE_ERROR"))
    /\ inv' = [fn |-> "get-state", action |-> "NONE", sendOk |-> FALSE]
    /\ UNCHANGED <<store, pc, loc, onlyFailures, nFailures, serial, run, tierRun,
                   sinceFailure, overlap>>

\* mutator.js 30-47 with an action that is none of FAILURE, SUCCESS, RESET
InvokeOther(p, action) ==
    /\ AllIdle
    /\ action \notin Actions
    /\ Invoked("mutator", action)
    /\ CASE Dispatch(action) = "handleFailure" -> FailureUpdate(p)
         [] Dispatch(action) = "handleSuccess" -> \E f \in BOOLEAN : SuccessGet(p, f)
         [] Dispatch(action) = "handleReset" -> Reset(p)
         [] OTHER ->
              /\ ret' = HandlerCatch(Thrown("UNKNOWN_ACTION"))
              /\ UNCHANGED <<store, pc, loc, onlyFailures, nFailures, serial, run,
                             tierRun, sinceFailure, overlap>>

\* a docClient.send of the mutator fails (mutator.js 70, 96, 139, 161, 224, 256):
\* the first send of a call that starts, or the second send of a call in flight;
\* nothing is written and the error leaves exports.handler through its catch
MutatorSendFails(p, action) ==
    /\ \/ AllIdle
       \/ pc[p] = "F_level" /\ action = "FAILURE"
       \/ pc[p] = "S_update" /\ action = "SUCCESS"
    /\ pc' = [pc EXCEPT ![p] = "idle"]
    /\ loc' = [loc EXCEPT ![p] = NoLocals]
    /\ ret' = HandlerCatch(Thrown("STORE_ERROR"))
    /\ inv' = [fn |-> "mutator", action |-> action, sendOk |-> FALSE]
    /\ UNCHANGED <<store, onlyFailures, nFailures, serial, run, tierRun,
                   sinceFailure, overlap>>

\* concurrent invocations: any interleaving of the store accesses
Next ==
    \/ \E p \in Procs : FailureUpdate(p) /\ UNCHANGED <<inv, flow, k6, sinceReset, api>>
    \/ \E p \in Procs : FailureLevelUpdate(p) /\ UNCHANGED <<inv, flow, k6, sinceReset, api>>
    \/ \E p \in Procs, f \in BOOLEAN : SuccessGet(p, f) /\ UNCHANGED <<inv, flow, k6, sinceReset, api>>
    \/ \E p \in Procs : SuccessUpdate(p) /\ UNCHANGED <<inv, flow, k6, sinceReset, api>>
    \/ \E p \in Procs : Reset(p) /\ UNCHANGED <<inv, flow, k6, sinceReset, api>>

Spec == Init /\ [][Next]_vars

\* one call at a time: a call starts only when no other call is in flight
SeqNext ==
    \/ \E p \in Procs : AllIdle /\ FailureUpdate(p) /\ UNCHANGED <<inv, flow, k6, sinceReset, api>>
    \/ \E p \in Procs : FailureLevelUpdate(p) /\ UNCHANGED <<inv, flow, k6, sinceReset, api>>
    \/ \E p \in Procs, f \in BOOLEAN : AllIdle /\ SuccessGet(p, f) /\ UNCHANGED <<inv, flow, k6, sinceReset, api>>
    \/ \E p \in Procs : SuccessUpdate(p) /\ UNCHANGED <<inv, flow, k6, sinceReset, api>>
    \/ \E p \in Procs : AllIdle /\ Reset(p) /\ UNCHANGED <<inv, flow, k6, sinceReset, api>>

SeqSpec == Init /\ [][SeqNext]_vars

\* FAILURE invocations overlap each other and nothing else: a FAILURE starts
\* while the other invocations in flight are FAILUREs, SUCCESS and RESET run alone
FailNext ==
    \/ \E p \in Procs : (\A q \in Procs : pc[q] \in {"idle", "F_level"}) /\ FailureUpdate(p) /\ UNCHANGED <<inv, flow, k6, sinceReset, api>>
    \/ \E p \in Procs : FailureLevelUpdate(p) /\ UNCHANGED <<inv, flow, k6, sinceReset, api>>
    \/ \E p \in Procs : \E hadErrorFlag \in BOOLEAN : AllIdle /\ SuccessGet(p, hadErrorFlag) /\ UNCHANGED <<inv, flow, k6, sinceReset, api>>
    \/ \E p \in Procs : SuccessUpdate(p) /\ UNCHANGED <<inv, flow, k6, sinceReset, api>>
    \/ \E p \in Procs : AllIdle /\ Reset(p) /\ UNCHANGED <<inv, flow, k6, sinceReset, api>>

FailSpec == Init /\ [][FailNext]_vars

\* history bookkeeping of a write by invocation p: a write pending since before
\* the latest RESET leaves the list of such invocations, any other write is
\* the write of an invocation that started after that RESET
WriteSinceReset(p) ==
    sinceReset' = IF p \in sinceReset.stale
                  THEN [sinceReset EXCEPT !.stale = @ \ {p}]
                  ELSE [sinceReset EXCEPT !.intact = FALSE]

\* history bookkeeping of a RESET: the invocations it finds in flight
ResetCompletes ==
    sinceReset' = [stale |-> {q \in Procs : pc[q] # "idle"}, intact |-> TRUE]

\* a RESET arrives at any moment: FAILURE and SUCCESS invocations run one at a
\* time, a RESET runs whenever an invocation slot is idle, also between the
\* two store accesses of the invocation in flight
ResetNext ==
    \/ \E p \in Procs : AllIdle /\ FailureUpdate(p) /\ WriteSinceReset(p) /\ UNCHANGED <<inv, flow, k6, api>>
    \/ \E p \in Procs : FailureLevelUpdate(p) /\ WriteSinceReset(p) /\ UNCHANGED <<inv, flow, k6, api>>
    \/ \E p \in Procs, f \in BOOLEAN : AllIdle /\ SuccessGet(p, f) /\ UNCHANGED <<inv, flow, k6, sinceReset, api>>
    \/ \E p \in Procs : SuccessUpdate(p) /\ WriteSinceReset(p) /\ UNCHANGED <<inv, flow, k6, api>>
    \/ \E p \in Procs : Reset(p) /\ ResetCompletes /\ UNCHANGED <<inv, flow, k6, api>>

ResetSpec == Init /\ [][ResetNext]_vars

\* one invocation at a time of the mutator, with any event.action, or of
\* get-state, over a store whose accesses may fail
ApiNext ==
    \/ \E p \in Procs : AllIdle /\ FailureUpdate(p) /\ Invoked("mutator", "FAILURE") /\ UNCHANGED <<flow, k6, sinceReset, api>>
    \/ \E p \in Procs : FailureLevelUpdate(p) /\ Invoked("mutator", "FAILURE") /\ UNCHANGED <<flow, k6, sinceReset, api>>
    \/ \E p \in Procs, f \in BOOLEAN : AllIdle /\ SuccessGet(p, f) /\ Invoked("mutator", "SUCCESS") /\ UNCHANGED <<flow, k6, sinceReset, api>>
    \/ \E p \in Procs : SuccessUpdate(p) /\ Invoked("mutator", "SUCCESS") /\ UNCHANGED <<flow, k6, sinceReset, api>>
    \/ \E p \in Procs : AllIdle /\ Reset(p) /\ Invoked("mutator", "RESET") /\ UNCHANGED <<flow, k6, sinceReset, api>>
    \/ \E p \in Procs, action \in OtherActions : InvokeOther(p, action) /\ UNCHANGED <<flow, k6, sinceReset, api>>
    \/ \E p \in Procs, action \in Actions : MutatorSendFails(p, action) /\ UNCHANGED <<flow, k6, sinceReset, api>>
    \/ GetState /\ UNCHANGED <<flow, k6, sinceReset, api>>
    \/ GetStateSendFails /\ UNCHANGED <<flow, k6, sinceReset, api>>

ApiSpec == Init /\ [][ApiNext]_vars

\* ---- the workflow of one request ----
\* GetSystemState -> Router -> tier handler -> RegisterSuccess / RegisterFailure
\* -> response.  The tier handlers are functions/services.js; the states of the
\* workflow and their order are the documented ones.

\* the values of the field `error` of a request body: true, false, or no field
ErrorFlags == {"true", "false", "undefined"}

\* variant of ServiceL1: the error flag is not looked at
ServiceL1_ignoresFlag(error) ==
    [thrown |-> FALSE, status |-> 200, level |-> 1, msg |-> "Full Capacity"]

\* services.js 5-21: throws when event.error === true
ServiceL1(error) ==
    IF error = "true"
    THEN [thrown |-> TRUE, status |-> 0, level |-> 0, msg |-> "CRITICAL_FAILURE"]
    ELSE [thrown |-> FALSE, status |-> 200, level |-> 1, msg |-> "Full Capacity"]

\* services.js 27-38: the error flag is not looked at
ServiceL2(error) ==
    [thrown |-> FALSE, status |-> 200, level |-> 2, msg |-> "Degraded Mode"]

\* variant of HadErrorFlag: the flag is dropped
HadErrorFlag_ignored(v) == FALSE

\* mutator.js 131: event.hadErrorFlag === true
HadErrorFlag(v) == v = "true"

\* Router: level 1 -> TryServiceL1, level 2 -> ServiceL2, default -> MaintenanceResponse
Route(level) ==
    IF level = 1 THEN "TryServiceL1"
    ELSE IF level = 2 THEN "ServiceL2"
    ELSE "MaintenanceResponse"

\* what the routed state answers and which transition it has registered:
\* TryServiceL1 registers a SUCCESS, or a FAILURE through its Catch, which
\* answers 500; ServiceL2 registers a SUCCESS; MaintenanceResponse invokes
\* no handler, answers by the error flag and registers a SUCCESS; the SUCCESS
\* carries the request's error flag as hadErrorFlag
Outcome(level, error) ==
    LET state == Route(level)
        r1 == ServiceL1(error)
        r2 == ServiceL2(error)
    IN  IF state = "TryServiceL1"
        THEN IF r1.thrown
             THEN [handler |-> "serviceL1", register |-> "FAILURE", hadErrorFlag |-> "undefined",
                   status |-> 500, msg |-> "Internal Server Error"]
             ELSE [handler |-> "serviceL1", register |-> "SUCCESS", hadErrorFlag |-> error,
                   status |-> r1.status, msg |-> r1.msg]
        ELSE IF state = "ServiceL2"
        THEN [handler |-> "serviceL2", register |-> "SUCCESS", hadErrorFlag |-> error,
              status |-> r2.status, msg |-> r2.msg]
        ELSE IF error = "true"
        THEN [handler |-> "none", register |-> "SUCCESS", hadErrorFlag |-> error,
              status |-> 503, msg |-> "Nivel 3: Sistema bajo mantenimiento, intente mas tarde"]
        ELSE [handler |-> "none", register |-> "SUCCESS", hadErrorFlag |-> error,
              status |-> 200, msg |-> "Nivel 3: Operacion al minimo"]

\* a request arrives and GetSystemState invokes get-state; a request that
\* would take errorCount past MaxErrors is not followed
GetSystemState(error) ==
    /\ flow.stage \in {"idle", "done"}
    /\ error = "true" => store.errorCount < MaxErrors
    /\ GetState
    /\ flow' = [NoFlow EXCEPT !.stage = "Router", !.error = error,
                              !.level = ret'.currentLevel,
                              !.errorCount = ret'.errorCount]

\* Router and the state it routes to, up to the answer being built
Router ==
    /\ flow.stage = "Router"
    /\ LET o == Outcome(flow.level, flow.error)
       IN  flow' = [flow EXCEPT !.stage = "Register", !.handler = o.handler,
                                !.register = o.register, !.hadErrorFlag = o.hadErrorFlag,
                                !.status = o.status, !.msg = o.msg]
    /\ UNCHANGED <<store, pc, loc, ret, onlyFailures, nFailures, serial, run, tierRun,
                   sinceFailure, overlap, inv>>

\* RegisterFailure / RegisterSuccess invoke the mutator: its first store access
Register(p) ==
    /\ flow.stage = "Register"
    /\ AllIdle
    /\ flow' = [flow EXCEPT !.stage = "Registering", !.calls = @ + 1]
    /\ Invoked("mutator", flow.register)
    /\ CASE Dispatch(flow.register) = "handleFailure" -> FailureUpdate(p)
         [] Dispatch(flow.register) = "handleSuccess" ->
                SuccessGet(p, HadErrorFlag(flow.hadErrorFlag))
         [] Dispatch(flow.register) = "handleReset" -> Reset(p)
         [] OTHER -> FALSE

\* the mutator invoked by the workflow makes its second store access
RegisterSecond(p) ==
    /\ flow.stage = "Registering"
    /\ \/ FailureLevelUpdate(p) /\ Invoked("mutator", "FAILURE")
       \/ SuccessUpdate(p) /\ Invoked("mutator", "SUCCESS")
    /\ UNCHANGED flow

\* variant of StatusCode: an answer of the 500 class is passed on as 502
StatusCode_badGateway(execution, status) ==
    IF execution = "SUCCEEDED"
    THEN IF status = 0 THEN 200 ELSE IF status >= 500 THEN 502 ELSE status
    ELSE 500

\* api-handler.js 24-48: statusCode is `output.status || 200` of an execution
\* that SUCCEEDED, else 500
StatusCode(execution, status) ==
    IF execution = "SUCCEEDED"
    THEN IF status = 0 THEN 200 ELSE status
    ELSE 500

\* the mutator has returned: the execution ends with the answer built, and
\* api-handler.js answers the request with it
Respond ==
    /\ flow.stage = "Registering"
    /\ AllIdle
    /\ flow' = [flow EXCEPT !.stage = "done",
                            !.statusCode = StatusCode("SUCCEEDED", flow.status)]
    /\ UNCHANGED <<store, pc, loc, ret, onlyFailures, nFailures, serial, run, tierRun,
                   sinceFailure, overlap, inv>>

\* requests served one after the other, with the store available
FlowNext ==
    \/ \E error \in ErrorFlags : GetSystemState(error) /\ UNCHANGED <<k6, sinceReset, api>>
    \/ Router /\ UNCHANGED <<k6, sinceReset, api>>
    \/ \E p \in Procs : Register(p) /\ UNCHANGED <<k6, sinceReset, api>>
    \/ \E p \in Procs : RegisterSecond(p) /\ UNCHANGED <<k6, sinceReset, api>>
    \/ Respond /\ UNCHANGED <<k6, sinceReset, api>>

FlowSpec == Init /\ [][FlowNext]_vars

\* an execution that has started runs to its end: the workflow engine takes its
\* next state and an invoked Lambda returns; no request has to arrive
FlowLive ==
    /\ FlowSpec
    /\ WF_vars(Router /\ UNCHANGED <<k6, sinceReset, api>>)
    /\ WF_vars(\E p \in Procs : Register(p) /\ UNCHANGED <<k6, sinceReset, api>>)
    /\ WF_vars(\E p \in Procs : RegisterSecond(p) /\ UNCHANGED <<k6, sinceReset, api>>)
    /\ WF_vars(Respond /\ UNCHANGED <<k6, sinceReset, api>>)

\* ---- api-handler.js: the proxy between the API gateway and the workflow ----

\* event.body: no body, a text that is not JSON, or a JSON object whose field
\* `error` is true, false or missing
Bodies == {"none", "malformed", "true", "false", "undefined"}

\* api-handler.js 13: `event.body ? JSON.parse(event.body) : {}`, as the field
\* `error` of the input, or "throws" when JSON.parse throws
ParseBody(body) ==
    IF body = "malformed" THEN "throws"
    ELSE IF body = "none" THEN "undefined"
    ELSE body

\* variant of ApiCatch: the catch logs and rethrows
ApiCatch_rethrow(error) == [statusCode |-> 0, raised |-> TRUE]

\* api-handler.js 51-65: the catch answers 500, whatever was thrown
ApiCatch(error) == [statusCode |-> 500, raised |-> FALSE]

\* result.output of an execution: the text of a JSON object, the text "null"
\* (or null itself), a text that is not JSON, or no output at all
OutputKinds == {"object", "null", "malformed", "undefined"}

\* variant of OutputThrows: an output that parses to null is read as an
\* object without fields
OutputThrows_nullAsEmpty(kind) == kind \in {"malformed", "undefined"}

\* api-handler.js 25-27: JSON.parse(result.output) throws on a text that is not
\* JSON and on undefined, and `output.status` throws on the null it gives for
\* "null" and null
OutputThrows(kind) == kind \in {"null", "malformed", "undefined"}

\* api-handler.js 24-65: the answer to a result of StartSyncExecution; the
\* output is read only when the execution SUCCEEDED, and what reading it
\* throws goes to the catch
ApiResponse(execution, kind, status) ==
    IF execution = "SUCCEEDED" /\ OutputThrows(kind)
    THEN ApiCatch("OutputError")
    ELSE [statusCode |-> StatusCode(execution, status), raised |-> FALSE]

\* the handler serving request req has ended with answer r
Answered(req, outcome, kind, output, r) ==
    api' = [req EXCEPT !.stage = "answered", !.outcome = outcome,
                       !.outputKind = kind, !.output = output,
                       !.statusCode = r.statusCode, !.raised = r.raised]

\* api-handler.js 10-13: a request arrives and its body is parsed
ApiReceive(body) ==
    /\ api.stage \in {"idle", "answered"}
    /\ IF ParseBody(body) = "throws"
       THEN Answered([NoRequest EXCEPT !.body = body], "parse_throws", "undefined", 0,
                     ApiCatch("SyntaxError"))
       ELSE api' = [NoRequest EXCEPT !.stage = "sent", !.body = body]
    /\ UNCHANGED <<store, pc, loc, ret, onlyFailures, nFailures, serial, run, tierRun,
                   sinceFailure, overlap, inv, flow>>

\* api-handler.js 21 and 51: sfnClient.send throws
ApiSendThrows ==
    /\ api.stage = "sent"
    /\ Answered(api, "send_throws", "undefined", 0, ApiCatch("SendError"))
    /\ UNCHANGED <<store, pc, loc, ret, onlyFailures, nFailures, serial, run, tierRun,
                   sinceFailure, overlap, inv, flow>>

\* api-handler.js 16-21: the execution of the workflow starts with the parsed input
ApiStartExecution ==
    /\ api.stage = "sent"
    /\ GetSystemState(ParseBody(api.body))
    /\ api' = [api EXCEPT !.stage = "running"]

\* api-handler.js 24-33: the execution of the workflow SUCCEEDED with the answer built
ApiRespond ==
    /\ api.stage = "running"
    /\ Respond
    /\ Answered(api, "SUCCEEDED", "object", flow.status,
                ApiResponse("SUCCEEDED", "object", flow.status))

\* api-handler.js 34-50: the execution ended without succeeding, between two
\* invocations of the workflow
ApiExecutionFails(execution) ==
    /\ api.stage = "running"
    /\ flow.stage \in {"Router", "Register", "Registering"}
    /\ AllIdle
    /\ flow' = [flow EXCEPT !.stage = "done", !.statusCode = StatusCode(execution, 0)]
    /\ Answered(api, execution, "undefined", 0, ApiResponse(execution, "undefined", 0))
    /\ UNCHANGED <<store, pc, loc, ret, onlyFailures, nFailures, serial, run, tierRun,
                   sinceFailure, overlap, inv>>

\* api-handler.js 24-33 and 51-65: STATE_MACHINE_ARN names a state machine whose
\* execution SUCCEEDED with an output that has no field `status`: an object
\* without it, null, a text that is not JSON, or no output
ApiOtherOutput(kind) ==
    /\ api.stage = "sent"
    /\ Answered(api, "SUCCEEDED", kind, 0, ApiResponse("SUCCEEDED", kind, 0))
    /\ UNCHANGED <<store, pc, loc, ret, onlyFailures, nFailures, serial, run, tierRun,
                   sinceFailure, overlap, inv, flow>>

\* requests served one after the other by api-handler.js
HandlerNext ==
    \/ \E body \in Bodies : ApiReceive(body) /\ UNCHANGED <<k6, sinceReset>>
    \/ ApiSendThrows /\ UNCHANGED <<k6, sinceReset>>
    \/ ApiStartExecution /\ UNCHANGED <<k6, sinceReset>>
    \/ Router /\ UNCHANGED <<k6, sinceReset, api>>
    \/ \E p \in Procs : Register(p) /\ UNCHANGED <<k6, sinceReset, api>>
    \/ \E p \in Procs : RegisterSecond(p) /\ UNCHANGED <<k6, sinceReset, api>>
    \/ ApiRespond /\ UNCHANGED <<k6, sinceReset>>
    \/ \E execution \in {"FAILED", "TIMED_OUT"} : ApiExecutionFails(execution) /\ UNCHANGED <<k6, sinceReset>>
    \/ \E kind \in OutputKinds : ApiOtherOutput(kind) /\ UNCHANGED <<k6, sinceReset>>

HandlerSpec == Init /\ [][HandlerNext]_vars

TypeOK ==
    /\ store.errorCount \in 0..MaxErrors
    /\ store.currentLevel \in 0..3
    /\ store.recoveryPoints \in 0..RECOVERY_POINTS
    /\ pc \in [Procs -> {"idle", "F_level", "S_update"}]

\* ---- the handlers run alone, as functions of the item ----

\* the item a handler's locals hold after its read
ItemOf(l) == [present |-> l.present, errorCount |-> l.errorCount,
              currentLevel |-> l.currentLevel, recoveryPoints |-> l.recoveryPoints]

\* handleFailure run with no other call in between (mutator.js 53-113)
SeqFailure(item) ==
    LET attrs == CounterUpdate(item)
        currentLevel == LevelOr1(attrs.currentLevel)
        newLevel == DegradeLevel(attrs.errorCount, currentLevel)
    IN  IF newLevel # currentLevel THEN LevelUpdate(attrs, newLevel) ELSE attrs

\* handleSuccess run with no other call in between (mutator.js 125-234)
SeqSuccess(item, hadErrorFlag) ==
    IF ~item.present THEN InitialItem
    ELSE SuccessItem(SuccessCompute(item, hadErrorFlag))

\* ---- the load script scripts/k6-test.js: one virtual user, one request after the other ----

\* k6-test.js 10: iterations
Iterations == 140

\* k6-test.js 28: requests per minute of the script
PerMinute == 20

\* k6-test.js 28: the minute of an iteration
Minute(currentIteration) == (currentIteration \div PerMinute) + 1

\* variant of ErrorValue: minute 1 sends its errors like minutes 3 and 5
ErrorValue_heavyMinute1(currentIteration) ==
    LET minute == Minute(currentIteration)
    IN  IF minute = 1 THEN currentIteration % PerMinute < 15
        ELSE IF minute = 3 THEN currentIteration % PerMinute < 15
        ELSE IF minute = 5 THEN currentIteration % PerMinute < 15
        ELSE FALSE

\* k6-test.js 31-44: the error flag of the request of an iteration
ErrorValue(currentIteration) ==
    LET minute == Minute(currentIteration)
    IN  IF minute = 1 THEN currentIteration % PerMinute < 5
        ELSE IF minute = 3 THEN currentIteration % PerMinute < 15
        ELSE IF minute = 5 THEN currentIteration % PerMinute < 15
        ELSE FALSE

\* the item after the workflow has served one request with nothing else running:
\* get-state, the routed state, and the transition it registers
ServeAlone(item, error) ==
    LET state == GetStateResult(item)
        o == Outcome(state.currentLevel, error)
    IN  IF Dispatch(o.register) = "handleFailure" THEN SeqFailure(item)
        ELSE SeqSuccess(item, HadErrorFlag(o.hadErrorFlag))

\* the table is reset before the script starts
K6Reset(p) ==
    /\ k6.currentIteration = 0
    /\ ~store.present
    /\ Reset(p)
    /\ Invoked("mutator", "RESET")
    /\ UNCHANGED <<flow, k6, sinceReset, api>>

\* k6-test.js 26-70: one iteration, the request served to its end; the
\* positions and results of the invocations are not followed here
K6Request ==
    /\ k6.currentIteration < Iterations
    /\ LET error == IF ErrorValue(k6.currentIteration) THEN "true" ELSE "false"
           state == GetStateResult(store)
           o == Outcome(state.currentLevel, error)
           minute == Minute(k6.currentIteration)
       IN  /\ store' = ServeAlone(store, error)
           /\ flow' = [stage |-> "done", error |-> error, level |-> state.currentLevel,
                       errorCount |-> state.errorCount, handler |-> o.handler,
                       register |-> o.register, hadErrorFlag |-> o.hadErrorFlag,
                       calls |-> 1, status |-> o.status, msg |-> o.msg,
                       statusCode |-> StatusCode("SUCCEEDED", o.status)]
           /\ k6' = [currentIteration |-> k6.currentIteration + 1,
                     degraded |-> k6.degraded \/ (minute = 1 /\ Tier(store') >= 2),
                     rose |-> k6.rose \/ (minute = 2 /\ store'.recoveryPoints > store.recoveryPoints)]
    /\ UNCHANGED <<pc, loc, ret, onlyFailures, nFailures, serial, run, tierRun,
                   sinceFailure, overlap, inv, sinceReset, api>>

K6Next ==
    \/ \E p \in Procs : K6Reset(p)
    \/ K6Request

K6Spec == Init /\ [][K6Next]_vars

\* the step just taken is the write of a handleSuccess of p / the level write of a handleFailure of p
SuccessWrites(p) == pc[p] = "S_update" /\ pc'[p] = "idle"
FailureWritesLevel(p) == pc[p] = "F_level" /\ pc'[p] = "idle"

\* the tier that k failures from the default record are documented to give
LadderTier(k) == IF k >= 10 THEN 3 ELSE IF k >= 5 THEN 2 ELSE 1

\* ---- claims ----

\* C1: from an absent record, after the k-th of k FAILURE calls run one at a
\* time errorCount = k and recoveryPoints = 0, the call reports tier 1 for
\* k < 5, 2 for 5 <= k < 10, 3 for k >= 10, and the tier changes at exactly
\* the 5th and the 10th call.
C1_FailureLadder ==
    (onlyFailures /\ ret.action = "FAILURE") =>
        /\ store.errorCount = nFailures
        /\ ret.errorCount = nFailures
        /\ store.recoveryPoints = 0
        /\ ret.currentLevel = LadderTier(nFailures)
        /\ Tier(store) = LadderTier(nFailures)
        /\ ret.levelChanged <=> nFailures \in {5, 10}

C1_Witness ==
    /\ onlyFailures /\ ret.action = "FAILURE"
    /\ nFailures = 10 /\ ret.currentLevel = 3 /\ ret.levelChanged

\* C2: with calls run one at a time, a SUCCESS lowers the tier only as the
\* 10th of 10 consecutive genuine successes at that tier; a FAILURE or a
\* protected success leaves recoveryPoints at 0, so the streak starts over.
C2_PromotionIsTenthGenuine ==
    [][ /\ (ret'.action = "SUCCESS" /\ Tier(store') < Tier(store)) =>
              /\ tierRun = RECOVERY_POINTS - 1
              /\ \E p \in Procs : SuccessWrites(p) /\ ~loc[p].hadErrorFlag
        /\ (\/ ret'.action = "FAILURE"
            \/ \E p \in Procs : SuccessWrites(p) /\ loc[p].hadErrorFlag) =>
              store'.recoveryPoints = 0
      ]_vars

C2_Witness ==
    /\ ret.action = "SUCCESS" /\ ret.levelChanged
    /\ ret.currentLevel = 1 /\ Tier(store) = 1 /\ run.n = 2 * RECOVERY_POINTS

\* C3: with calls run one at a time, from tier 2 (or 3) with recoveryPoints = 0,
\* the first 9 of 10 consecutive genuine successes keep the tier and the 10th
\* leaves tier 1 (or 2), errorCount = 0, recoveryPoints = 0.
C3_TenGenuineSuccessesPromote ==
    (AllIdle /\ run.level0 \in {2, 3} /\ run.rp0 = 0) =>
        /\ run.n < 10 => /\ Tier(store) = run.level0
                         /\ store.recoveryPoints = run.n
        /\ run.n = 10 => /\ Tier(store) = run.level0 - 1
                         /\ store.errorCount = 0
                         /\ store.recoveryPoints = 0
        /\ (run.level0 = 3 /\ run.n \in 10..19) => /\ Tier(store) = 2
                                                  /\ store.recoveryPoints = run.n - 10
        /\ (run.level0 = 3 /\ run.n = 20) => /\ Tier(store) = 1
                                            /\ store.errorCount = 0
                                            /\ store.recoveryPoints = 0

C3_Witness ==
    /\ AllIdle /\ run.level0 = 2 /\ run.rp0 = 0 /\ run.n = 10
    /\ Tier(store) = 1 /\ ret.action = "SUCCESS" /\ ret.levelChanged

\* C4: with calls run one at a time, a FAILURE or SUCCESS call changes the
\* tier by at most one step.
C4_SingleStep ==
    [][ ret'.action \in {"FAILURE", "SUCCESS"} =>
            Tier(store') - Tier(store) \in {-1, 0, 1} ]_vars

C4_Witness ==
    ret.action = "FAILURE" /\ ret.levelChanged /\ ret.currentLevel = 3 /\ Tier(store) = 3

\* C5: with only applyFailure calls running, in any interleaving, a level
\* write of applyFailure never takes the stored tier from 1 to 3 and never
\* lowers it.
C5_FailureWritesOnlyDegradeOneStep ==
    [][ (onlyFailures /\ \E p \in Procs : FailureWritesLevel(p)) =>
            /\ ~(Tier(store) = 1 /\ Tier(store') = 3)
            /\ Tier(store') >= Tier(store) ]_vars

\* C6 as written: the stored tier increases only in response to FAILURE
\* transitions; no SUCCESS, whatever its hadErrorFlag, and no RESET raises it.
\* Read for each SUCCESS against the tier it read, for RESET against the
\* stored tier, and for the stored tier over calls that have run one at a time.
C6_OnlyFailureRaisesTier ==
    [][ /\ \A p \in Procs :
              SuccessWrites(p) => Tier(store') <= LevelOr1(loc[p].currentLevel)
        /\ ret'.action = "RESET" => Tier(store') <= Tier(store)
        /\ (serial' /\ Tier(store') > Tier(store)) =>
              \E p \in Procs : FailureWritesLevel(p)
      ]_vars

\* C6 as amended: a SUCCESS writes a tier above the one it read only when it is
\* a protected success that read tier 2 and brings errorCount to DEGRADE_TO_L3
\* or more (it writes 3); RESET writes tier 1; so with calls run one at a
\* time the stored tier increases only through a FAILURE or such a protected
\* success.
C6_RaisedByFailureOrProtectedSuccess ==
    [][ /\ \A p \in Procs :
              (SuccessWrites(p) /\ Tier(store') > LevelOr1(loc[p].currentLevel)) =>
                  /\ loc[p].hadErrorFlag
                  /\ LevelOr1(loc[p].currentLevel) = 2
                  /\ loc[p].errorCount + 1 >= DEGRADE_TO_L3
                  /\ Tier(store') = 3
        /\ ret'.action = "RESET" => Tier(store') <= Tier(store)
        /\ (serial' /\ Tier(store') > Tier(store)) =>
              \/ \E p \in Procs : FailureWritesLevel(p)
              \/ \E p \in Procs : /\ SuccessWrites(p)
                                  /\ loc[p].hadErrorFlag
                                  /\ Tier(store) = 2
      ]_vars

C6_Witness ==
    /\ serial /\ ret.action = "SUCCESS" /\ ret.levelChanged
    /\ ret.currentLevel = 3 /\ Tier(store) = 3

\* C7: in any interleaving, the stored tier decreases only through the write
\* of a SUCCESS that read tier 2 or 3 and whose recoveryPoints reached
\* RECOVERY_POINTS, or through RESET.
C7_OnlyPromotionLowersTier ==
    [][ Tier(store') < Tier(store) =>
            \/ ret'.action = "RESET"
            \/ \E p \in Procs : /\ SuccessWrites(p)
                                /\ ~loc[p].hadErrorFlag
                                /\ LevelOr1(loc[p].currentLevel) > 1
                                /\ loc[p].recoveryPoints + 1 >= RECOVERY_POINTS
      ]_vars

\* C8: in any interleaving, once a FAILURE counter write has taken effect the
\* stored recoveryPoints never exceeds the number of genuine handleSuccess
\* calls that read the record after it.
C8_FailureDiscardsRecovery ==
    sinceFailure.seen => store.recoveryPoints <= sinceFailure.reads

\* C9: with only applyFailure calls running, all pending level writes carry
\* the same target tier, and once all calls have returned the stored tier is
\* the one the same failures give when run one at a time.
C9_DoubleWriteBenign ==
    onlyFailures =>
        /\ \A p, q \in Procs :
              (pc[p] = "F_level" /\ pc[q] = "F_level") => loc[p].newLevel = loc[q].newLevel
        /\ AllIdle => Tier(store) = LadderTier(nFailures)

\* C10: an applyFailure that runs between the read and the write of an
\* applySuccess is not lost: the record after the write is the one that
\* running the two calls one after the other, in one of the two orders, gives.
C10_SuccessAtomic ==
    [][ \A p \in Procs :
            (overlap = "SF" /\ SuccessWrites(p)) =>
                store' \in { SeqFailure(SeqSuccess(ItemOf(loc[p]), loc[p].hadErrorFlag)),
                             SeqSuccess(SeqFailure(ItemOf(loc[p])), loc[p].hadErrorFlag) }
      ]_vars

\* the step just taken is the counter write of a handleFailure of p
FailureWritesCounter(p) ==
    /\ pc[p] = "idle"
    /\ \/ pc'[p] = "F_level"
       \/ pc' = pc /\ ret'.action = "FAILURE"

\* the post-increment errorCount the handleFailure of p got back from its counter write
ObservedErrorCount(p) == IF pc'[p] = "F_level" THEN loc'[p].errorCount ELSE ret'.errorCount

\* C11: while applyFailure calls run concurrently and nothing else runs, no
\* increment is lost: every counter write leaves the stored errorCount one
\* higher and hands that value back to its call, a value above the one every
\* call still in flight got, the level writes leave errorCount alone, and
\* counted from the absent record the stored errorCount is the number of
\* counter writes made.
C11_NoLostIncrement ==
    [][ /\ onlyFailures' => store'.errorCount = nFailures'
        /\ \A p \in Procs :
              FailureWritesCounter(p) =>
                  /\ ObservedErrorCount(p) = store.errorCount + 1
                  /\ store'.errorCount = store.errorCount + 1
                  /\ \A q \in Procs \ {p} :
                        pc[q] = "F_level" => loc[q].errorCount < ObservedErrorCount(p)
        /\ \A p \in Procs : FailureWritesLevel(p) => store'.errorCount = store.errorCount
      ]_vars

C11_Witness ==
    /\ ~onlyFailures /\ store.errorCount = 6
    /\ \A p \in Procs : pc[p] = "F_level"
    /\ \E p \in Procs : loc[p].errorCount = 5
    /\ \E p \in Procs : loc[p].errorCount = 6

\* C12: reset() from any state reached, the absent record included, leaves the
\* record at tier 1 with errorCount 0 and recoveryPoints 0 and returns those
\* values, and a reset right after a reset leaves the same record and returns
\* the same result.
C12_ResetIdempotent ==
    [][ ret'.action = "RESET" =>
          /\ store' = [present |-> TRUE, errorCount |-> 0, currentLevel |-> 1, recoveryPoints |-> 0]
          /\ ret'.currentLevel = 1 /\ ret'.errorCount = 0 /\ ret'.recoveryPoints = 0
          /\ ret.action = "RESET" => (store' = store /\ ret' = ret)
      ]_vars

C12_Witness ==
    /\ ret.action = "RESET"
    /\ store.present /\ store.currentLevel = 1 /\ store.errorCount = 0
    /\ sinceFailure.seen

\* C13: reading the state when there is no record returns tier 1 and
\* errorCount 0 and leaves the store without a record, and no read of the
\* state, in any state, changes the store.
C13_ReaderLeavesStore ==
    [][ inv'.fn = "get-state" =>
          /\ store' = store
          /\ (~store.present /\ inv'.sendOk) =>
                 ret'.currentLevel = 1 /\ ret'.errorCount = 0 /\ ~store'.present
      ]_vars

C13_Witness ==
    inv.fn = "get-state" /\ inv.sendOk /\ ~store.present /\ ret.action = "GET"
    /\ ret.currentLevel = 1 /\ ret.errorCount = 0

\* C14: in every state of the store, the states where the record was created
\* by an applyFailure on an absent record included, the tier the reader
\* returns is one of 1, 2, 3.
C14_ReaderTierDefined ==
    ret.action = "GET" => ret.currentLevel \in {1, 2, 3}

\* C15: right after a promotion, a SUCCESS that lowers the tier 2 -> 1 or
\* 3 -> 2, errorCount and recoveryPoints are 0 in the stored record and in
\* the returned result.
C15_PromotionClearsCounters ==
    [][ (ret'.action = "SUCCESS" /\ Tier(store') < Tier(store)) =>
          /\ store'.errorCount = 0 /\ store'.recoveryPoints = 0
          /\ ret'.errorCount = 0 /\ ret'.recoveryPoints = 0
          /\ ret'.levelChanged /\ ret'.currentLevel = Tier(store')
          /\ Tier(store') = Tier(store) - 1
      ]_vars

C15_Witness ==
    /\ ret.action = "SUCCESS" /\ ret.levelChanged /\ ret.currentLevel = 2
    /\ store.currentLevel = 2 /\ store.errorCount = 0 /\ store.recoveryPoints = 0
    /\ run.level0 = 3

\* the step just taken is the write of a protected handleSuccess of p
\* (hadErrorFlag true) that read an item at tier 2 or 3
ProtectedWrites(p) ==
    /\ SuccessWrites(p)
    /\ loc[p].present /\ loc[p].hadErrorFlag
    /\ LevelOr1(loc[p].currentLevel) # 1

\* C16: with operations one at a time, a protected success (hadErrorFlag true)
\* at tier 2 or 3 raises errorCount by 1, leaves recoveryPoints at 0 and never
\* lowers the tier; from tier 2 it sets tier 3 on exactly the call that takes
\* errorCount from below 10 to 10, and at tier 3 the tier stays 3.
C16_ProtectedSuccessRun ==
    [][ \A p \in Procs : ProtectedWrites(p) =>
          /\ store'.errorCount = store.errorCount + 1
          /\ ret'.errorCount = store'.errorCount
          /\ store'.recoveryPoints = 0 /\ ret'.recoveryPoints = 0
          /\ Tier(store') >= Tier(store)
          /\ ret'.currentLevel = Tier(store')
          /\ Tier(store) = 2 =>
                /\ store.errorCount < DEGRADE_TO_L3
                /\ Tier(store') = IF store'.errorCount = DEGRADE_TO_L3 THEN 3 ELSE 2
          /\ Tier(store) = 3 => Tier(store') = 3
      ]_vars

C16_Witness ==
    /\ ret.action = "SUCCESS" /\ ret.levelChanged /\ ret.currentLevel = 3
    /\ ret.errorCount = DEGRADE_TO_L3 /\ ret.recoveryPoints = 0
    /\ store.currentLevel = 3 /\ store.errorCount = DEGRADE_TO_L3

\* C19: an invocation of the mutator with an action other than FAILURE,
\* SUCCESS or RESET, a missing action included, ends with an error thrown to
\* the caller, makes no store access and leaves the record as it was.
C19_UnknownActionThrows ==
    [][ (inv'.fn = "mutator" /\ inv'.action \notin {"FAILURE", "SUCCESS", "RESET"}) =>
          /\ ret'.action = "UNKNOWN_ACTION"
          /\ store' = store
          /\ pc' = pc
      ]_vars

C19_Witness ==
    /\ inv.fn = "mutator" /\ inv.action = "undefined"
    /\ ret.action = "UNKNOWN_ACTION"
    /\ store.present /\ store.currentLevel = 2 /\ store.errorCount > 0

\* C20: when a store access of the reader or of a mutator operation fails, the
\* operation ends with that error thrown to its caller: the reader does not
\* answer with the default record, and the mutator operation returns no result
\* and takes no further step.
C20_StoreErrorsPropagate ==
    [][ ~inv'.sendOk =>
          /\ ret'.action = "STORE_ERROR"
          /\ \A p \in Procs : pc'[p] = "idle"
      ]_vars

C20_Witness ==
    /\ inv.fn = "get-state" /\ ~inv.sendOk
    /\ ret.action = "STORE_ERROR"
    /\ store.present /\ store.currentLevel = 2

\* C17: the answer to a request is determined by the tier the reader returned
\* for it and its error flag (no flag counts as false): tier 1 without error
\* 200 "Full Capacity", tier 1 with error 500, tier 2 200 "Degraded Mode"
\* whatever the flag, tier 3 without error 200 (operation at minimum), tier 3
\* with error 503 (under maintenance).
C17_ResponseContract ==
    flow.stage \in {"Register", "Registering", "done"} =>
        /\ (flow.level = 1 /\ flow.error # "true") =>
               flow.status = 200 /\ flow.msg = "Full Capacity"
        /\ (flow.level = 1 /\ flow.error = "true") => flow.status = 500
        /\ flow.level = 2 => flow.status = 200 /\ flow.msg = "Degraded Mode"
        /\ (flow.level = 3 /\ flow.error # "true") =>
               flow.status = 200 /\ flow.msg = "Nivel 3: Operacion al minimo"
        /\ (flow.level = 3 /\ flow.error = "true") =>
               /\ flow.status = 503
               /\ flow.msg = "Nivel 3: Sistema bajo mantenimiento, intente mas tarde"

C17_Witness ==
    flow.stage = "done" /\ flow.level = 1 /\ flow.error = "true" /\ flow.status = 500
    /\ store.errorCount = DEGRADE_TO_L2

\* C18: every request makes exactly one mutator transition, by the tier it was
\* routed on: tier 1 with a failing handler one FAILURE, tier 1 with a
\* succeeding handler one SUCCESS, tier 2 one SUCCESS with hadErrorFlag the
\* request's error flag, tier 3 no tier handler and one SUCCESS with
\* hadErrorFlag the request's error flag; a tier-3 request with error = true
\* answers 503, raises errorCount by 1 and leaves recoveryPoints 0.
C18_OneTransitionPerRequest ==
    /\ \A p \in Procs :
          (flow.stage = "Registering" /\ pc[p] = "S_update") =>
              /\ flow.calls = 1
              /\ loc[p].hadErrorFlag = (flow.error = "true")
    /\ flow.stage = "done" =>
        /\ flow.calls = 1
        /\ ret.action = flow.register
        /\ inv.fn = "mutator" /\ inv.action = flow.register
        /\ (flow.level = 1 /\ flow.error = "true") => ret.action = "FAILURE"
        /\ (flow.level = 1 /\ flow.error # "true") => ret.action = "SUCCESS"
        /\ flow.level = 2 =>
               ret.action = "SUCCESS" /\ flow.hadErrorFlag = flow.error
        /\ flow.level = 3 =>
               /\ flow.handler = "none"
               /\ ret.action = "SUCCESS" /\ flow.hadErrorFlag = flow.error
        /\ (flow.level = 3 /\ flow.error = "true") =>
               /\ flow.status = 503
               /\ store.errorCount = flow.errorCount + 1 /\ ret.errorCount = store.errorCount
               /\ store.recoveryPoints = 0 /\ ret.recoveryPoints = 0

C18_Witness ==
    /\ flow.stage = "done" /\ flow.level = 3 /\ flow.error = "true" /\ flow.status = 503
    /\ flow.calls = 1 /\ ret.action = "SUCCESS"
    /\ store.errorCount = MaxErrors /\ store.recoveryPoints = 0 /\ store.currentLevel = 3

\* C21: the k6 scenario run one request at a time from the default state
\* degrades to L2 during minute 1, is at L3 after the error requests of
\* minute 3, and is at L1 at the end of minute 6.
C21_K6Scenario ==
    /\ k6.currentIteration = PerMinute => k6.degraded
    /\ k6.currentIteration = 2 * PerMinute + 15 => Tier(store) = 3
    /\ k6.currentIteration = 6 * PerMinute => Tier(store) = 1

\* C22 as written: in the k6 scenario the system is in a degraded tier when
\* minute 2 starts and recoveryPoints increases during minute 2.
C22_Minute2AccumulatesRecovery ==
    /\ k6.currentIteration = PerMinute => Tier(store) \in {2, 3}
    /\ k6.currentIteration = 2 * PerMinute => k6.rose

\* C22 amended: in the k6 scenario the system is at tier 1 when minute 2
\* starts, and through minute 2 it stays at tier 1 with recoveryPoints 0: no
\* request of minute 2 raises recoveryPoints.
C22_Minute2AtFullCapacity ==
    k6.currentIteration \in PerMinute .. 2 * PerMinute =>
        /\ Tier(store) = 1
        /\ store.recoveryPoints = 0
        /\ ~k6.rose

C22_Witness ==
    /\ k6.currentIteration = 2 * PerMinute
    /\ k6.degraded
    /\ store.present /\ Tier(store) = 1 /\ store.recoveryPoints = 0

\* C23: with the store available every request completes, with one answer
\* whose status is 200, 500 or 503; a request routed on tier 3 is answered 200
\* or 503 and no tier handler is invoked for it.
C23_EveryRequestAnswered ==
    /\ [](flow.stage # "done" => flow.statusCode = 0)
    /\ [](flow.stage = "done" =>
            /\ flow.statusCode \in {200, 500, 503}
            /\ flow.level = 3 => (flow.handler = "none" /\ flow.statusCode \in {200, 503}))
    /\ (flow.stage = "Router" ~> flow.stage = "done")

C23_Witness ==
    /\ flow.stage = "done" /\ flow.level = 3 /\ flow.handler = "none"
    /\ flow.error = "undefined" /\ flow.statusCode = 200

\* C24: with operations one at a time, a run of 20 or more consecutive genuine
\* successes, from whatever state it started, has the tier at 1: a stream of
\* genuine successes brings the system back to full capacity and keeps it there.
C24_AutomaticRecovery ==
    run.n >= 2 * RECOVERY_POINTS => /\ Tier(store) = 1
                                    /\ store.recoveryPoints = 0

C24_Witness ==
    /\ AllIdle /\ run.n = 2 * RECOVERY_POINTS
    /\ run.level0 = 3 /\ run.rp0 = 0
    /\ store.currentLevel = 1 /\ store.errorCount = 0

\* C25: reset() always reports changed = true, also when the record was
\* already at tier 1 with errorCount 0 and recoveryPoints 0 before the call.
C25_ResetReportsChanged ==
    [][ ret'.action = "RESET" =>
          /\ ret'.levelChanged
          /\ (store.present /\ store.currentLevel = 1 /\ store.errorCount = 0
               /\ store.recoveryPoints = 0) => (ret'.levelChanged /\ store' = store)
      ]_vars

C25_Witness ==
    /\ ret.action = "RESET" /\ ret.levelChanged
    /\ ~onlyFailures /\ ~sinceFailure.seen
    /\ store.present /\ store.currentLevel = 1 /\ store.errorCount = 0
    /\ store.recoveryPoints = 0

\* the step just taken is the write of a handleSuccess of p that found an item
SuccessWritesExisting(p) == SuccessWrites(p) /\ loc[p].present

\* C26: a SUCCESS on an existing record at tier 1, whatever hadErrorFlag is,
\* sets errorCount to max(0, errorCount - 1) and recoveryPoints to 0 and leaves
\* the tier at 1: no recovery point is created and nothing is degraded.
C26_SuccessAtTier1 ==
    [][ \A p \in Procs :
          (SuccessWritesExisting(p) /\ Tier(store) = 1) =>
              /\ store'.errorCount = IF store.errorCount >= 1 THEN store.errorCount - 1 ELSE 0
              /\ store'.recoveryPoints = 0
              /\ store'.currentLevel = 1
              /\ ret'.errorCount = store'.errorCount /\ ret'.recoveryPoints = 0
              /\ ret'.currentLevel = 1 /\ ~ret'.levelChanged
      ]_vars

C26_Witness ==
    /\ ret.action = "SUCCESS" /\ ~ret.levelChanged /\ ret.currentLevel = 1
    /\ ret.errorCount = DEGRADE_TO_L2 - 2 /\ store.errorCount = DEGRADE_TO_L2 - 2
    /\ store.recoveryPoints = 0 /\ run.n = 0

\* C27: a genuine success (hadErrorFlag false) at tier 2 or 3 that does not
\* bring recoveryPoints to 10 leaves tier and errorCount as they were, raises
\* recoveryPoints by exactly 1 and reports changed = false.
C27_GenuineBelowThreshold ==
    [][ \A p \in Procs :
          (SuccessWritesExisting(p) /\ ~loc[p].hadErrorFlag /\ Tier(store) \in {2, 3}
             /\ store.recoveryPoints + 1 < RECOVERY_POINTS) =>
              /\ store'.currentLevel = Tier(store)
              /\ store'.errorCount = store.errorCount
              /\ store'.recoveryPoints = store.recoveryPoints + 1
              /\ ret'.recoveryPoints = store'.recoveryPoints
              /\ ret'.errorCount = store.errorCount /\ ret'.currentLevel = Tier(store)
              /\ ~ret'.levelChanged
      ]_vars

C27_Witness ==
    /\ ret.action = "SUCCESS" /\ ~ret.levelChanged /\ ret.currentLevel = 3
    /\ ret.recoveryPoints = RECOVERY_POINTS - 1 /\ store.recoveryPoints = RECOVERY_POINTS - 1
    /\ store.errorCount = MaxErrors /\ store.currentLevel = 3

\* C28: a SUCCESS when no record exists, whatever hadErrorFlag is, creates the
\* record with tier 1, errorCount 0, recoveryPoints 0 and returns those values
\* with changed = false.
C28_SuccessOnAbsentRecord ==
    [][ \A p \in Procs :
          (SuccessWrites(p) /\ ~store.present) =>
              /\ store' = [present |-> TRUE, errorCount |-> 0, currentLevel |-> 1,
                           recoveryPoints |-> 0]
              /\ ret'.action = "SUCCESS"
              /\ ret'.errorCount = 0 /\ ret'.currentLevel = 1 /\ ret'.recoveryPoints = 0
              /\ ~ret'.levelChanged
      ]_vars

C28_Witness ==
    /\ ret.action = "SUCCESS" /\ ~ret.levelChanged
    /\ ~sinceFailure.seen /\ onlyFailures = FALSE /\ run.n = 0
    /\ store.present /\ store.currentLevel = 1 /\ store.errorCount = 0

\* the tier stored before the call whose last step is being taken: handleFailure's
\* counter write leaves the level alone, so it is the tier stored before this step
TierBefore == Tier(store)

\* C29: with operations one at a time, the result of applyFailure and of
\* applySuccess describes the record stored after the call: errorCount, tier
\* and, for a success, recoveryPoints are the stored values, and changed is
\* true exactly when the tier after the call differs from the tier before it.
C29_ResultDescribesRecord ==
    [][ ret'.action \in {"FAILURE", "SUCCESS"} =>
          /\ ret'.errorCount = store'.errorCount
          /\ ret'.currentLevel = Tier(store')
          /\ ret'.action = "SUCCESS" => ret'.recoveryPoints = store'.recoveryPoints
          /\ ret'.levelChanged = (Tier(store') # TierBefore)
      ]_vars

C29_Witness ==
    /\ ret.action = "FAILURE" /\ ret.levelChanged
    /\ ret.errorCount = DEGRADE_TO_L2 /\ store.errorCount = DEGRADE_TO_L2
    /\ ret.currentLevel = 2 /\ store.currentLevel = 2
    /\ AllIdle

\* C30: with operations one at a time, every state reached after a completed
\* operation keeps errorCount in the band of its tier: tier 1 has
\* errorCount <= 4 and recoveryPoints = 0, tier 2 has errorCount <= 9, tier 3
\* has errorCount >= 10.
C30_ErrorCountBands ==
    AllIdle =>
        /\ Tier(store) = 1 => (store.errorCount <= DEGRADE_TO_L2 - 1 /\ store.recoveryPoints = 0)
        /\ Tier(store) = 2 => store.errorCount <= DEGRADE_TO_L3 - 1
        /\ Tier(store) = 3 => store.errorCount >= DEGRADE_TO_L3

C30_Witness ==
    /\ AllIdle /\ Tier(store) = 2 /\ store.errorCount = DEGRADE_TO_L3 - 1
    /\ ret.action = "SUCCESS" /\ store.recoveryPoints = 0

\* C31: in every reachable state under any interleaving of concurrent FAILURE,
\* SUCCESS and RESET invocations, the stored errorCount is at least 0, the
\* stored recoveryPoints is between 0 and RECOVERY_POINTS - 1, and the stored
\* currentLevel, when the item has one, is 1, 2 or 3.
C31_StoredCountersInRange ==
    /\ store.errorCount >= 0
    /\ store.recoveryPoints >= 0
    /\ store.recoveryPoints <= RECOVERY_POINTS - 1
    /\ store.currentLevel # NoLevel => store.currentLevel \in {1, 2, 3}

\* two SUCCESS invocations overlapped: one has stored recoveryPoints 9 while
\* the other still holds the 8 it read
C31_Witness ==
    /\ ~serial
    /\ store.recoveryPoints = RECOVERY_POINTS - 1
    /\ \E p \in Procs : /\ pc[p] = "S_update"
                        /\ ~loc[p].hadErrorFlag
                        /\ loc[p].recoveryPoints = RECOVERY_POINTS - 2

\* C32: once a RESET has completed, the stored record stays at tier 1,
\* errorCount 0, recoveryPoints 0 until an invocation that started after the
\* RESET writes; the pending write of a FAILURE or SUCCESS that began before
\* the RESET does not change the reset record.
C32_ResetEffective ==
    sinceReset.intact =>
        /\ Tier(store) = 1
        /\ store.errorCount = 0
        /\ store.recoveryPoints = 0

\* C33 as written: api-handler.js always ends with an HTTP response and never
\* raises: when the execution SUCCEEDED the status code is the status of the
\* workflow's output, 200 when the output has none; when the execution did
\* not succeed, or parsing the body or invoking the workflow threw, it is 500.
C33_HandlerAlwaysResponds ==
    api.stage = "answered" =>
        /\ ~api.raised
        /\ api.outcome = "SUCCEEDED" =>
               api.statusCode = (IF api.output = 0 THEN 200 ELSE api.output)
        /\ api.outcome \in {"FAILED", "TIMED_OUT", "parse_throws", "send_throws"} =>
               api.statusCode = 500

\* C33 as amended: api-handler.js always ends with an HTTP response and never
\* raises: when the execution SUCCEEDED and its output is a JSON object the
\* status code is the status of the output, 200 when the output has none;
\* when the execution did not succeed, or parsing the body, invoking the
\* workflow or reading the output of an execution that SUCCEEDED threw (no
\* output, not JSON, or null), it is 500.
C33_HandlerRespondsByOutput ==
    api.stage = "answered" =>
        /\ ~api.raised
        /\ (api.outcome = "SUCCEEDED" /\ api.outputKind = "object") =>
               api.statusCode = (IF api.output = 0 THEN 200 ELSE api.output)
        /\ (api.outcome = "SUCCEEDED" /\ api.outputKind # "object") =>
               api.statusCode = 500
        /\ api.outcome \in {"FAILED", "TIMED_OUT", "parse_throws", "send_throws"} =>
               api.statusCode = 500

\* after a request answered 503 by the workflow, an execution that SUCCEEDED
\* with the output null has been answered 500
C33_Witness ==
    /\ api.stage = "answered"
    /\ api.outcome = "SUCCEEDED"
    /\ api.outputKind = "null"
    /\ api.statusCode = 500
    /\ ~api.raised
    /\ flow.statusCode = 503

====
